---- MODULE Spec2Model ----
(***************************************************************************)
(* Model of SlidingWindowRateLimiter (src/task1.py).                       *)
(*                                                                         *)
(* Time is counted in whole ticks of the clock that time.time() reads.     *)
(* The clock runs on its own (Tick) and every public method reads it where *)
(* the code calls time.time().  record_message reads it on line 28 and     *)
(* again, through can_send_message, on line 22; the clock may have moved   *)
(* between the two reads, so the second read is any value from the first   *)
(* one onwards.                                                            *)
(*                                                                         *)
(* user_history is a function whose DOMAIN is the set of keys of the dict; *)
(* a deque is a sequence, oldest timestamp first.                          *)
(***************************************************************************)
EXTENDS Integers, Sequences, FiniteSets, TLC

\* ---------------------------------------------------------------- bounds
MaxTime == 3
MaxWindow == 2
MaxRequests == 2

\* the user ids the callers pass
Users == {"u1", "u2"}

VARIABLES
    window_size,    \* self.window_size
    max_requests,   \* self.max_requests
    user_history,   \* self.user_history
    clock,          \* what time.time() returns now
    op,             \* the public method that ran last
    user,           \* its user_id
    current_time,   \* the current_time of that method (record_message: line 28)
    check_time,     \* the current_time its _cleanup_window ran with
    ret,            \* the boolean it returned (can_send_message, record_message)
    wait,           \* the number it returned (time_until_next_allowed)
    old_history,    \* self.user_history when the method was entered
    allowed_at,     \* per user: the instant the last positive wait pointed at
    due,            \* allowed_at[user] when the method was entered
    threads         \* per thread: where its record_message call stands

vars == <<window_size, max_requests, user_history, clock, op, user,
          current_time, check_time, ret, wait, old_history, allowed_at, due,
          threads>>

\* what is noted of the last call made outside the threads
observed == <<op, user, current_time, check_time, ret, wait, old_history,
              allowed_at, due>>

\* the threads that share one limiter
Threads == {"A", "B"}

\* a thread that is not inside record_message; result is what its last call
\* returned or raised
Idle(res) == [pc |-> "idle", uid |-> "u1", t28 |-> 0, t22 |-> 0, result |-> res]

config == <<window_size, max_requests>>

NoWait == 0 - 1

\* the methods that change or read the history
Methods == {"can_send_message", "record_message", "time_until_next_allowed"}

\* ------------------------------------------------------------- helpers
Max(a, b) == IF a >= b THEN a ELSE b

\* self.user_history = {}
EmptyHistory == [k \in {} |-> <<>>]

\* self.user_history.get(user_id, [])
Get(h, u) == IF u \in DOMAIN h THEN h[u] ELSE <<>>

\* the loop of _cleanup_window written with <
RECURSIVE CleanupSeqStrict(_, _)
CleanupSeqStrict(q, now) ==
    IF q # <<>> /\ Head(q) < now - window_size
    THEN CleanupSeqStrict(Tail(q), now)
    ELSE q

\* the while loop of _cleanup_window on one deque: popleft() while the
\* deque is not empty and its first element is <= current_time - window_size
RECURSIVE CleanupSeq(_, _)
CleanupSeq(q, now) ==
    IF q # <<>> /\ Head(q) <= now - window_size
    THEN CleanupSeq(Tail(q), now)
    ELSE q

\* _cleanup_window that forgets to delete the emptied entry
cleanup_window_keep_empty(h, u, now) ==
    IF u \in DOMAIN h
    THEN [h EXCEPT ![u] = CleanupSeq(h[u], now)]
    ELSE h

\* _cleanup_window that trims every user's deque
cleanup_window_all(h, u, now) ==
    LET live == {k \in DOMAIN h : CleanupSeq(h[k], now) # <<>>}
    IN  [k \in live |-> CleanupSeq(h[k], now)]

\* _cleanup_window(user_id, current_time): the history it leaves
cleanup_window(h, u, now) ==
    IF u \in DOMAIN h
    THEN LET q == CleanupSeq(h[u], now)
         IN  IF q = <<>>
             THEN [k \in DOMAIN h \ {u} |-> h[k]]
             ELSE [h EXCEPT ![u] = q]
    ELSE h

\* can_send_message that refuses a user it has no entry for
can_send_message_known(h, u, now) ==
    LET c == cleanup_window(h, u, now)
    IN  [history |-> c,
         result  |-> u \in DOMAIN c /\ Len(c[u]) < max_requests]

\* can_send_message on a history that creates the entry it looks up
\* (a defaultdict, or setdefault in place of get)
can_send_message_creates(h, u, now) ==
    LET c == cleanup_window(h, u, now)
    IN  [history |-> [k \in DOMAIN c \cup {u} |-> Get(c, k)],
         result  |-> Len(Get(c, u)) < max_requests]

\* can_send_message whose comparison is <=
can_send_message_le(h, u, now) ==
    LET c == cleanup_window(h, u, now)
    IN  [history |-> c, result |-> Len(Get(c, u)) <= max_requests]

\* can_send_message(user_id) with time.time() = now: the history it leaves
\* and the value it returns
can_send_message(h, u, now) ==
    LET c == cleanup_window(h, u, now)
    IN  [history |-> c, result |-> Len(Get(c, u)) < max_requests]

\* the body of the if of record_message with appendleft in place of append
append_time_left(h, u, t) ==
    [k \in DOMAIN h \cup {u} |-> IF k = u THEN <<t>> \o Get(h, u) ELSE h[k]]

\* the body of the if of record_message: create the deque if the user has
\* none, append current_time
append_time(h, u, t) ==
    [k \in DOMAIN h \cup {u} |-> IF k = u THEN Append(Get(h, u), t) ELSE h[k]]

\* record_message whose append is not under the if
record_message_always(h, u, t1, t2) ==
    LET c == can_send_message(h, u, t2)
    IN  [history |-> append_time(c.history, u, t1), result |-> c.result]

\* record_message that compares the length before the window is cleaned
record_message_unpruned(h, u, t1, t2) ==
    LET c == can_send_message(h, u, t2)
    IN  IF Len(Get(h, u)) < max_requests
        THEN [history |-> append_time(c.history, u, t1), result |-> TRUE]
        ELSE [history |-> c.history, result |-> FALSE]

\* record_message(user_id): t1 is the time.time() of line 28, t2 the one
\* that the call of can_send_message reads on line 22
record_message(h, u, t1, t2) ==
    LET c == can_send_message(h, u, t2)
    IN  IF c.result
        THEN [history |-> append_time(c.history, u, t1), result |-> TRUE]
        ELSE [history |-> c.history, result |-> FALSE]

\* time_until_next_allowed that looks at the newest timestamp
time_until_next_allowed_newest(h, u, now) ==
    LET c == cleanup_window(h, u, now)
    IN  [history |-> c,
         result  |-> IF u \notin DOMAIN c \/ Len(c[u]) < max_requests
                     THEN 0
                     ELSE Max(0, c[u][Len(c[u])] + window_size - now)]

\* time_until_next_allowed whose length comparison is <=
time_until_next_allowed_le(h, u, now) ==
    LET c == cleanup_window(h, u, now)
    IN  [history |-> c,
         result  |-> IF u \notin DOMAIN c \/ Len(c[u]) <= max_requests
                     THEN 0
                     ELSE Max(0, c[u][1] + window_size - now)]

\* time_until_next_allowed(user_id) with time.time() = now
time_until_next_allowed(h, u, now) ==
    LET c == cleanup_window(h, u, now)
    IN  [history |-> c,
         result  |-> IF u \notin DOMAIN c \/ Len(c[u]) < max_requests
                     THEN 0
                     ELSE Max(0, c[u][1] + window_size - now)]

\* ---------------------------------------------------------------- Init
\* SlidingWindowRateLimiter(w, m): __init__ stores its two arguments as they
\* are and starts with an empty history
Construct(w, m) ==
    /\ window_size = w
    /\ max_requests = m
    /\ user_history = EmptyHistory
    /\ clock = 0
    /\ op = "none"
    /\ user = "u1"
    /\ current_time = 0
    /\ check_time = 0
    /\ ret = FALSE
    /\ wait = 0
    /\ old_history = EmptyHistory
    /\ allowed_at = [u \in Users |-> NoWait]
    /\ due = NoWait
    /\ threads = [th \in Threads |-> Idle("none")]

\* a limiter built with a positive window and a positive quota
Init ==
    \E w \in 1..MaxWindow : \E m \in 1..MaxRequests : Construct(w, m)

\* the arguments a caller may pass to the constructor: negative, zero, positive
AnyWindow == (0 - 1)..MaxWindow
AnyRequests == (0 - 1)..MaxRequests

\* a limiter built with any arguments
InitAnyConfig ==
    \E w \in AnyWindow : \E m \in AnyRequests : Construct(w, m)

\* ------------------------------------------------------------- actions
\* time passes between two calls
Tick ==
    /\ clock < MaxTime
    /\ clock' = clock + 1
    /\ UNCHANGED <<config, user_history, op, user, current_time, check_time,
                   ret, wait, old_history, allowed_at, due, threads>>

\* a call of can_send_message(u)
CanSendMessage(u) ==
    LET r == can_send_message(user_history, u, clock)
    IN  /\ user_history' = r.history
        /\ ret' = r.result
        /\ op' = "can_send_message"
        /\ user' = u
        /\ current_time' = clock
        /\ check_time' = clock
        /\ wait' = 0
        /\ old_history' = user_history
        /\ due' = allowed_at[u]
        /\ UNCHANGED <<config, clock, allowed_at, threads>>

\* a call of record_message(u); the clock may move between its two reads
RecordMessage(u) ==
    \E t2 \in clock..MaxTime :
        LET r == record_message(user_history, u, clock, t2)
        IN  /\ user_history' = r.history
            /\ ret' = r.result
            /\ op' = "record_message"
            /\ user' = u
            /\ current_time' = clock
            /\ check_time' = t2
            /\ clock' = t2
            /\ wait' = 0
            /\ old_history' = user_history
            /\ due' = allowed_at[u]
            /\ allowed_at' = IF r.result
                             THEN [allowed_at EXCEPT ![u] = NoWait]
                             ELSE allowed_at
            /\ UNCHANGED <<config, threads>>

\* a call of time_until_next_allowed(u)
TimeUntilNextAllowed(u) ==
    LET r == time_until_next_allowed(user_history, u, clock)
    IN  /\ user_history' = r.history
        /\ wait' = r.result
        /\ op' = "time_until_next_allowed"
        /\ user' = u
        /\ current_time' = clock
        /\ check_time' = clock
        /\ ret' = FALSE
        /\ old_history' = user_history
        /\ due' = allowed_at[u]
        /\ allowed_at' = IF r.result > 0
                         THEN [allowed_at EXCEPT ![u] = clock + r.result]
                         ELSE allowed_at
        /\ UNCHANGED <<config, clock, threads>>

Next ==
    \/ Tick
    \/ \E u \in Users : CanSendMessage(u)
    \/ \E u \in Users : RecordMessage(u)
    \/ \E u \in Users : TimeUntilNextAllowed(u)

Spec == Init /\ [][Next]_vars

\* the same calls on a limiter built with any arguments
SpecAnyConfig == InitAnyConfig /\ [][Next]_vars

\* ------------------------------------- record_message in several threads
\* The class takes no lock, so the statements of two record_message calls
\* on the same limiter interleave.  A step is one statement of
\* record_message or can_send_message; _cleanup_window runs as one step.

\* line 28: a thread enters record_message(u) and reads the clock
ThreadEnter(th, u) ==
    /\ threads[th].pc = "idle"
    /\ threads' = [threads EXCEPT ![th] =
           [pc |-> "line22", uid |-> u, t28 |-> clock, t22 |-> 0,
            result |-> "none"]]
    /\ UNCHANGED <<config, user_history, clock, observed>>

\* line 22: can_send_message reads the clock
ThreadReadClock(th) ==
    /\ threads[th].pc = "line22"
    /\ threads' = [threads EXCEPT ![th].pc = "line23", ![th].t22 = clock]
    /\ UNCHANGED <<config, user_history, clock, observed>>

\* line 23: can_send_message cleans the user's window
ThreadCleanup(th) ==
    /\ threads[th].pc = "line23"
    /\ user_history' =
           cleanup_window(user_history, threads[th].uid, threads[th].t22)
    /\ threads' = [threads EXCEPT ![th].pc = "line24", ![th].t22 = 0]
    /\ UNCHANGED <<config, clock, observed>>

\* lines 24, 29 and 34: the length is compared; record_message goes on to
\* line 30 or returns False
ThreadCheck(th) ==
    /\ threads[th].pc = "line24"
    /\ threads' = [threads EXCEPT ![th] =
           IF Len(Get(user_history, threads[th].uid)) < max_requests
           THEN [@ EXCEPT !.pc = "line30"]
           ELSE Idle("False")]
    /\ UNCHANGED <<config, user_history, clock, observed>>

\* lines 30-31: the deque is created when the user has none
ThreadCreate(th) ==
    /\ threads[th].pc = "line30"
    /\ user_history' =
           [k \in DOMAIN user_history \cup {threads[th].uid} |->
               Get(user_history, k)]
    /\ threads' = [threads EXCEPT ![th].pc = "line32"]
    /\ UNCHANGED <<config, clock, observed>>

\* lines 32-33: the timestamp of line 28 is appended and True returned; the
\* subscript raises KeyError when another thread's _cleanup_window deleted
\* the deque in the meantime
ThreadAppend(th) ==
    /\ threads[th].pc = "line32"
    /\ IF threads[th].uid \in DOMAIN user_history
       THEN /\ user_history' =
                   append_time(user_history, threads[th].uid, threads[th].t28)
            /\ threads' = [threads EXCEPT ![th] = Idle("True")]
       ELSE /\ user_history' = user_history
            /\ threads' = [threads EXCEPT ![th] = Idle("KeyError")]
    /\ UNCHANGED <<config, clock, observed>>

NextConcurrent ==
    \/ Tick
    \/ \E th \in Threads : \E u \in Users : ThreadEnter(th, u)
    \/ \E th \in Threads : ThreadReadClock(th)
    \/ \E th \in Threads : ThreadCleanup(th)
    \/ \E th \in Threads : ThreadCheck(th)
    \/ \E th \in Threads : ThreadCreate(th)
    \/ \E th \in Threads : ThreadAppend(th)

\* two threads calling record_message on one limiter
SpecConcurrent == Init /\ [][NextConcurrent]_vars

\* ------------------------------------------------------ what is checked
\* the timestamps of q that are still in the window that ends at now
InWindow(q, now) == SelectSeq(q, LAMBDA t : t > now - window_size)

\* the instants a call made from this state on can read
Later == clock..(MaxTime + MaxWindow)

\* C1: quota bound.  In every reachable state every user's deque holds at
\* most max_requests timestamps, and so at every instant from now on at
\* most max_requests of them lie in the window that ends at that instant.
QuotaBound ==
    \A k \in DOMAIN user_history :
        /\ Len(user_history[k]) <= max_requests
        /\ \A now \in Later :
               Len(InWindow(user_history[k], now)) <= max_requests

\* C1 witness: a record_message was refused on a deque that holds two
\* timestamps, both in the window.
QuotaBoundWitness ==
    /\ op = "record_message"
    /\ ~ret
    /\ max_requests = 2
    /\ Len(InWindow(Get(user_history, user), clock)) = 2

\* C2 as stated, the call's now being the current_time of record_message:
\* an admitted record_message leaves the user's deque as it was on entry
\* without the timestamps <= now - window_size, followed by now, and leaves
\* every other user's deque alone.
RecordAppendsNow ==
    (op = "record_message" /\ ret) =>
        /\ DOMAIN user_history = DOMAIN old_history \cup {user}
        /\ user_history[user] =
               InWindow(Get(old_history, user), current_time) \o <<current_time>>
        /\ \A k \in DOMAIN old_history \ {user} :
               user_history[k] = old_history[k]

\* C3: a record_message that returns False leaves the whole history as it
\* found it.
RefusedRecordChangesNothing ==
    (op = "record_message" /\ ~ret) => user_history = old_history

\* C3 witness: a refused record_message during which the clock moved, with
\* the other user in the history too.
RefusedRecordWitness ==
    /\ op = "record_message"
    /\ ~ret
    /\ check_time > current_time
    /\ DOMAIN user_history = Users

\* C4: check/record consistency.  From every reachable state, for every
\* user and every instant t from now on, a record_message that runs wholly
\* at t returns what can_send_message returns at t, whether it runs instead
\* of can_send_message or right after it, and when that is False it leaves
\* the history as it found it.
CheckRecordConsistent ==
    \A k \in Users : \A t \in Later :
        LET c  == can_send_message(user_history, k, t)
            r0 == record_message(user_history, k, t, t)
            r1 == record_message(c.history, k, t, t)
        IN  /\ r0.result = c.result
            /\ r1.result = c.result
            /\ ~c.result => (r0.history = user_history /\ r1.history = c.history)

\* C4 witness: can_send_message has just returned False, the clock has not
\* moved since, and the record_message that runs now is refused.
CheckRecordWitness ==
    /\ op = "can_send_message"
    /\ ~ret
    /\ clock = check_time
    /\ ~record_message(user_history, user, clock, clock).result

\* C5 as stated, a record_message being attempted at the instant its own
\* current_time holds: after time_until_next_allowed returned w > 0 at t,
\* and with no admission for the user since, a record_message for that user
\* returns True exactly when its instant is t + w or later.
WaitIsExact ==
    (op = "record_message" /\ due # NoWait) =>
        (ret <=> current_time >= due)

\* C6: time_until_next_allowed returns 0 when fewer than max_requests of
\* the user's timestamps are left in the window that ends at now, and
\* otherwise the larger of 0 and oldest + window_size - now for the oldest
\* timestamp left; and from every reachable state, for every user and every
\* instant from now on, what it returns is never negative.
WaitTimeValue ==
    /\ op = "time_until_next_allowed" =>
           LET left == InWindow(Get(old_history, user), current_time)
           IN  wait = IF Len(left) < max_requests
                      THEN 0
                      ELSE Max(0, left[1] + window_size - current_time)
    /\ \A k \in Users : \A now \in Later :
           time_until_next_allowed(user_history, k, now).result >= 0

\* C6 witness: time_until_next_allowed returned a positive wait for a user
\* with two timestamps in the window, the older one not the newer one.
WaitTimeWitness ==
    /\ op = "time_until_next_allowed"
    /\ wait > 0
    /\ Len(Get(user_history, user)) = 2
    /\ user_history[user][1] < user_history[user][2]

\* C7 as stated, a record_message happening at the instant its own
\* current_time holds: a record_message for a user whose deque holds
\* max_requests timestamps, the oldest being t0, is admitted exactly when
\* its instant is t0 + window_size or later.
WindowBoundary ==
    (op = "record_message" /\ Len(Get(old_history, user)) = max_requests) =>
        (ret <=> current_time >= old_history[user][1] + window_size)

\* C8: monotone pruning.  From every reachable state, for every user in the
\* history and every instant now from the present on, _cleanup_window
\* leaves exactly the user's timestamps t > now - window_size, in their
\* order, all of them in (now - window_size, now], and a second
\* _cleanup_window with the same now changes nothing; and a
\* can_send_message or time_until_next_allowed call that has run left
\* exactly the timestamps of the window that ends at the instant it read.
MonotonePruning ==
    /\ \A k \in DOMAIN user_history : \A now \in Later :
           LET c    == cleanup_window(user_history, k, now)
               left == Get(c, k)
           IN  /\ left = InWindow(user_history[k], now)
               /\ \A i \in 1..Len(left) :
                      left[i] > now - window_size /\ left[i] <= now
               /\ \A j \in DOMAIN user_history \ {k} :
                      j \in DOMAIN c /\ c[j] = user_history[j]
               /\ cleanup_window(c, k, now) = c
    /\ op \in {"can_send_message", "time_until_next_allowed"} =>
           Get(user_history, user) = InWindow(Get(old_history, user), check_time)

\* C8 witness: a can_send_message call removed the older of a user's two
\* timestamps and kept the newer one.
MonotonePruningWitness ==
    /\ op = "can_send_message"
    /\ Len(Get(old_history, user)) = 2
    /\ Len(Get(user_history, user)) = 1
    /\ user_history[user][1] = old_history[user][2]

\* C9 as stated: when time passes without any call, a history in which
\* every user still had a timestamp in the window is left with no user all
\* of whose timestamps have aged out.
AgedOutKeyIsAbsent ==
    [][(clock' = clock + 1 /\ user_history' = user_history
        /\ \A k \in DOMAIN user_history :
               InWindow(user_history[k], clock) # <<>>)
       => \A k \in DOMAIN user_history' :
               InWindow(user_history'[k], clock') # <<>>]_vars

\* C9 amended: once all of a user's timestamps have aged out, the user is
\* absent from the history right after the next can_send_message or
\* time_until_next_allowed call for that user, and a record_message call for
\* that user leaves only the timestamp it appends.
LazyGarbageCollection ==
    (op \in Methods /\ user \in DOMAIN old_history) =>
        /\ op # "record_message" =>
               (user \in DOMAIN user_history
                   <=> InWindow(old_history[user], check_time) # <<>>)
        /\ (op = "record_message"
            /\ InWindow(old_history[user], check_time) = <<>>) =>
               (user \in DOMAIN user_history
                   /\ user_history[user] = <<current_time>>)
        /\ user \in DOMAIN user_history => user_history[user] # <<>>

\* C9 witness: a user whose timestamps had all aged out stayed in the
\* history while the clock went on, and the can_send_message call for that
\* user then removed the entry.
LazyGarbageCollectionWitness ==
    /\ op = "can_send_message"
    /\ user \in DOMAIN old_history
    /\ InWindow(old_history[user], check_time - 1) = <<>>
    /\ user \notin DOMAIN user_history

\* C10: key independence.  A call for one user leaves every other user's
\* presence and deque as they were, and what any later call for another
\* user returns and leaves for that user is what it would have been without
\* the call.
KeyIndependence ==
    op \in Methods =>
        \A b \in Users \ {user} :
            /\ b \in DOMAIN user_history <=> b \in DOMAIN old_history
            /\ Get(user_history, b) = Get(old_history, b)
            /\ \A now \in Later :
                   LET c1 == can_send_message(user_history, b, now)
                       c0 == can_send_message(old_history, b, now)
                       w1 == time_until_next_allowed(user_history, b, now)
                       w0 == time_until_next_allowed(old_history, b, now)
                   IN  /\ c1.result = c0.result
                       /\ w1.result = w0.result
                       /\ Get(c1.history, b) = Get(c0.history, b)

\* C10 witness: a record_message for one user was admitted while the other
\* user's deque held a timestamp that had aged out, and that deque is as it
\* was.
KeyIndependenceWitness ==
    /\ op = "record_message"
    /\ ret
    /\ \E b \in DOMAIN user_history \ {user} :
           /\ InWindow(user_history[b], check_time) # user_history[b]
           /\ user_history[b] = old_history[b]

\* C11 as stated: while record_message calls run concurrently, no user's
\* deque ever holds more than max_requests timestamps of the window that
\* ends now, which two calls that both return True for one free slot
\* would make it hold.
NoDoubleAdmission ==
    \A k \in DOMAIN user_history :
        Len(InWindow(user_history[k], clock)) <= max_requests

\* C12 as stated: a limiter that was built and takes calls has a positive
\* window_size and a positive max_requests, whatever arguments the
\* constructor was given.
InvalidConfigRejected ==
    window_size > 0 /\ max_requests > 0

\* C13: unknown key on read.  From every reachable state, for every user
\* that has no entry in the history and every instant from now on,
\* can_send_message returns True and time_until_next_allowed returns 0, and
\* both leave the history as it is; and a call that has run for such a user
\* returned these values.
UnknownKeyIsAllowed ==
    /\ \A k \in Users \ DOMAIN user_history : \A now \in Later :
           LET c == can_send_message(user_history, k, now)
               w == time_until_next_allowed(user_history, k, now)
           IN  /\ c.result
               /\ w.result = 0
               /\ c.history = user_history
               /\ w.history = user_history
    /\ (op = "can_send_message" /\ user \notin DOMAIN old_history) => ret
    /\ (op = "time_until_next_allowed" /\ user \notin DOMAIN old_history) =>
           wait = 0

\* C13 witness: time_until_next_allowed ran for a user without an entry
\* while the other user's deque was full and in the window.
UnknownKeyWitness ==
    /\ op = "time_until_next_allowed"
    /\ user \notin DOMAIN old_history
    /\ wait = 0
    /\ \E b \in DOMAIN user_history :
           Len(InWindow(user_history[b], clock)) = max_requests

\* C14: no empty entries.  In every state between two calls every user in
\* the history has a deque that is not empty.
NoEmptyEntries ==
    \A k \in DOMAIN user_history : user_history[k] # <<>>

\* C14 witness: a time_until_next_allowed call emptied the user's deque and
\* the entry is gone, the other user's entry being still there.
NoEmptyEntriesWitness ==
    /\ op = "time_until_next_allowed"
    /\ user \in DOMAIN old_history
    /\ user \notin DOMAIN user_history
    /\ user_history # EmptyHistory

\* C15 as stated: a record_message call cleans the window and checks the
\* quota with the clock value that it appends.
SingleClockSnapshot ==
    op = "record_message" => check_time = current_time

\* C16: sorted history.  In every reachable state every user's deque is
\* non-decreasing from front to back and holds no timestamp later than the
\* clock, so its first element is its smallest and the prefix that
\* _cleanup_window trims holds every expired timestamp.
SortedHistory ==
    \A k \in DOMAIN user_history :
        LET q == user_history[k]
        IN  /\ \A i \in 1..Len(q) : \A j \in i..Len(q) : q[i] <= q[j]
            /\ \A i \in 1..Len(q) : q[1] <= q[i] /\ q[i] <= clock
            /\ \A i \in 1..Len(CleanupSeq(q, clock)) :
                   CleanupSeq(q, clock)[i] > clock - window_size

\* C16 witness: a record_message appended its timestamp behind an earlier
\* one that the deque already held.
SortedHistoryWitness ==
    /\ op = "record_message"
    /\ ret
    /\ Len(Get(old_history, user)) = 1
    /\ Len(user_history[user]) = 2
    /\ user_history[user][1] = old_history[user][1]
    /\ user_history[user][1] < user_history[user][2]

\* C17: can_send_message and time_until_next_allowed do not admit.  After
\* either call every other user's entry is as it was, a user without an
\* entry still has none, and the user's deque is what it was without a
\* prefix of timestamps that are all <= now - window_size: no timestamp is
\* added.
ReadsOnlyPrune ==
    op \in {"can_send_message", "time_until_next_allowed"} =>
        LET before == Get(old_history, user)
            after  == Get(user_history, user)
            gone   == Len(before) - Len(after)
        IN  /\ DOMAIN user_history \subseteq DOMAIN old_history
            /\ \A k \in DOMAIN old_history \ {user} :
                   k \in DOMAIN user_history /\ user_history[k] = old_history[k]
            /\ gone >= 0
            /\ after = SubSeq(before, gone + 1, Len(before))
            /\ \A i \in 1..gone : before[i] <= check_time - window_size
            /\ user \in DOMAIN user_history <=> after # <<>>

\* C17 witness: can_send_message returned True for a user that had no
\* entry, and the user still has none.
ReadsOnlyPruneWitness ==
    /\ op = "can_send_message"
    /\ ret
    /\ user \notin DOMAIN old_history
    /\ user \notin DOMAIN user_history
    /\ old_history # EmptyHistory

\* C18: the wait agrees with the admission check.  From every reachable
\* state, for every user and every instant from now on,
\* time_until_next_allowed returns 0 exactly when can_send_message returns
\* True, and a positive number exactly when it returns False.
WaitAgreesWithCheck ==
    \A k \in Users : \A now \in Later :
        LET c == can_send_message(user_history, k, now).result
            w == time_until_next_allowed(user_history, k, now).result
        IN  /\ (w = 0) <=> c
            /\ (w > 0) <=> ~c

\* C18 witness: can_send_message has just returned False and, the clock not
\* having moved, time_until_next_allowed returns a positive wait.
WaitAgreesWitness ==
    /\ op = "can_send_message"
    /\ ~ret
    /\ clock = check_time
    /\ time_until_next_allowed(user_history, user, clock).result > 0

====
